---- MODULE Spec2Model ----
(***************************************************************************)
(* Model of k8sinterface/k8sdiscovery.go: the process-wide resource        *)
(* registry (ResourceGroupMapping, ResourceNamesapcedScope,                *)
(* ResourceClusterScope), its population from a discovery snapshot and     *)
(* its query functions.                                                    *)
(*                                                                         *)
(* Go strings are modelled as sequences of one-character strings, so that  *)
(* strings.Split, strings.HasSuffix, strings.ToLower and fmt.Sprintf are   *)
(* computed character by character (ASCII only).                           *)
(***************************************************************************)
EXTENDS Integers, Sequences, FiniteSets, TLC

VARIABLES ResourceGroupMapping, ResourceNamesapcedScope, ResourceClusterScope,
          pc, arg, result, firstSeen

vars == <<ResourceGroupMapping, ResourceNamesapcedScope, ResourceClusterScope,
          pc, arg, result, firstSeen>>

registry == <<ResourceGroupMapping, ResourceNamesapcedScope, ResourceClusterScope>>

(***************************************************************************)
(* Bounds of the model.                                                    *)
(***************************************************************************)
\* size of a discovery snapshot: its entries plus all their resource descriptors
MaxSnapshotSize == 3
\* length of the strings given to updateResourceKind
MaxLen == 2

(***************************************************************************)
(* String literals, as character sequences.                                *)
(***************************************************************************)
Empty == << >>
Star == <<"*">>
Slash == "/"
str_s == <<"s">>
str_ies == <<"i", "e", "s">>
str_pod == <<"p", "o", "d">>
str_Pod == <<"P", "o", "d">>
str_pods == <<"p", "o", "d", "s">>
str_PODS == <<"P", "O", "D", "S">>
str_policy == <<"p", "o", "l", "i", "c", "y">>
str_Policy == <<"P", "o", "l", "i", "c", "y">>
str_policies == <<"p", "o", "l", "i", "c", "i", "e", "s">>
str_crd == <<"c", "r", "d">>
str_v1 == <<"v", "1">>
str_apps == <<"a", "p", "p", "s">>
str_apps_v1 == <<"a", "p", "p", "s", "/", "v", "1">>
str_metrics == <<"m", "e", "t", "r", "i", "c", "s", ".", "k", "8", "s", ".", "i", "o">>
str_metrics_v1 == str_metrics \o <<"/", "v", "1">>
str_a_b_c == <<"a", "/", "b", "/", "c">>

ValueNotFound == -1

(***************************************************************************)
(* Go standard library string functions.                                   *)
(***************************************************************************)
UpperCase == <<"A", "B", "C", "D", "E", "F", "G", "H", "I", "J", "K", "L", "M",
               "N", "O", "P", "Q", "R", "S", "T", "U", "V", "W", "X", "Y", "Z">>
LowerCase == <<"a", "b", "c", "d", "e", "f", "g", "h", "i", "j", "k", "l", "m",
               "n", "o", "p", "q", "r", "s", "t", "u", "v", "w", "x", "y", "z">>

ToLowerChar(c) ==
    IF \E i \in 1..26 : UpperCase[i] = c
    THEN LowerCase[CHOOSE i \in 1..26 : UpperCase[i] = c]
    ELSE c

\* strings.ToLower
ToLower(s) == [i \in 1..Len(s) |-> ToLowerChar(s[i])]

\* strings.HasSuffix
HasSuffix(s, suffix) ==
    /\ Len(s) >= Len(suffix)
    /\ SubSeq(s, Len(s) - Len(suffix) + 1, Len(s)) = suffix

\* strings.TrimSuffix
TrimSuffix(s, suffix) ==
    IF HasSuffix(s, suffix) THEN SubSeq(s, 1, Len(s) - Len(suffix)) ELSE s

\* strings.Count(s, "/")
CountSlash(s) == Cardinality({i \in 1..Len(s) : s[i] = Slash})

\* strings.Index(s, "/"), for a string that holds a "/"
IndexSlash(s) == CHOOSE i \in 1..Len(s) :
                    s[i] = Slash /\ \A j \in 1..(i - 1) : s[j] # Slash

\* strings.Split(s, "/"): the substrings between the separators; [s] if there is none
RECURSIVE Split(_)
Split(s) ==
    IF CountSlash(s) = 0
    THEN <<s>>
    ELSE <<SubSeq(s, 1, IndexSlash(s) - 1)>>
            \o Split(SubSeq(s, IndexSlash(s) + 1, Len(s)))

\* schema.ParseGroupVersion (k8s.io/apimachinery): "" and "/" are the empty
\* GroupVersion, "v" is {"", v}, "g/v" is {g, v}, more than one "/" is an error
ParseGroupVersion(gv) ==
    IF Len(gv) = 0 \/ gv = <<Slash>>
    THEN [Group |-> Empty, Version |-> Empty, err |-> FALSE]
    ELSE IF CountSlash(gv) = 0
    THEN [Group |-> Empty, Version |-> gv, err |-> FALSE]
    ELSE IF CountSlash(gv) = 1
    THEN [Group |-> SubSeq(gv, 1, IndexSlash(gv) - 1),
          Version |-> SubSeq(gv, IndexSlash(gv) + 1, Len(gv)),
          err |-> FALSE]
    ELSE [Group |-> Empty, Version |-> Empty, err |-> TRUE]

(***************************************************************************)
(* Helpers of k8sdiscovery.go.                                             *)
(***************************************************************************)
\* StringInSlice: the first index (from 0) of str in strSlice, or ValueNotFound
StringInSlice(strSlice, str) ==
    IF \E i \in 1..Len(strSlice) : strSlice[i] = str
    THEN (CHOOSE i \in 1..Len(strSlice) :
            strSlice[i] = str /\ \A j \in 1..(i - 1) : strSlice[j] # str) - 1
    ELSE ValueNotFound

JoinGroupVersion(group, version) == group \o <<Slash>> \o version

\* mutant: joins the way path.Join does, dropping empty elements
JoinResourceTriplets_SkipEmpty(group, version, resource) ==
    (IF group = << >> THEN << >> ELSE group \o <<Slash>>)
        \o (IF version = << >> THEN << >> ELSE version \o <<Slash>>)
        \o resource

JoinResourceTriplets(group, version, resource) ==
    group \o <<Slash>> \o version \o <<Slash>> \o resource

GroupVersionResourceToString(resource) ==
    JoinResourceTriplets(resource.Group, resource.Version, resource.Resource)

ignoreGroups == <<str_metrics>>

\* mutant: no test for a trailing "s"
updateResourceKind_AlwaysPlural(resource) ==
    LET lower == ToLower(resource)
    IN  IF lower # << >>
        THEN IF HasSuffix(lower, <<"y">>)
             THEN TrimSuffix(lower, <<"y">>) \o str_ies
             ELSE lower \o str_s
        ELSE lower

updateResourceKind(resource) ==
    LET lower == ToLower(resource)
    IN  IF lower # Empty /\ ~HasSuffix(lower, str_s)
        THEN IF HasSuffix(lower, <<"y">>)
             THEN TrimSuffix(lower, <<"y">>) \o str_ies
             ELSE lower \o str_s
        ELSE lower

(***************************************************************************)
(* Inputs: the discovery snapshots given to setMapResources.  An entry is  *)
(* a nil pointer or an APIResourceList {GroupVersion, APIResources}; a     *)
(* resource descriptor is an APIResource {Name, Namespaced, Verbs}.        *)
(***************************************************************************)
Names == {str_pods, str_policy}
VerbLists == {<< >>, <<"get">>}
GroupVersions == {str_v1, str_apps_v1, str_metrics_v1, str_a_b_c}

APIResources == [Name : Names, Namespaced : BOOLEAN, Verbs : VerbLists]

NilEntry == [nil |-> TRUE, GroupVersion |-> Empty, APIResources |-> << >>]

RECURSIVE SeqsOfLen(_, _)
SeqsOfLen(S, n) ==
    IF n = 0 THEN {<< >>}
    ELSE {<<x>> \o t : x \in S, t \in SeqsOfLen(S, n - 1)}

\* the entries of size n: the entry itself counts 1, each descriptor 1
EntriesOfSize(n) ==
    {[nil |-> FALSE, GroupVersion |-> gv, APIResources |-> rs] :
        gv \in GroupVersions, rs \in SeqsOfLen(APIResources, n - 1)}
    \cup (IF n = 1 THEN {NilEntry} ELSE {})

RECURSIVE SnapshotsUpTo(_)
SnapshotsUpTo(n) ==
    {<< >>} \cup
    UNION {{<<e>> \o rest : e \in EntriesOfSize(k), rest \in SnapshotsUpTo(n - k)} :
            k \in 1..n}

Snapshots == SnapshotsUpTo(MaxSnapshotSize)

(***************************************************************************)
(* setMapResources.  The three package variables are passed and returned   *)
(* as one record [m, ns, cs].                                              *)
(***************************************************************************)
\* mutant: no "do not override resources in map" test
RegisterResource_Override(reg, gv, apiResource) ==
    IF Len(apiResource.Verbs) = 0
    THEN reg
    ELSE LET triplet == JoinResourceTriplets(gv.Group, gv.Version, apiResource.Name)
             value == JoinGroupVersion(gv.Group, gv.Version)
         IN  [m  |-> [n \in DOMAIN reg.m \cup {apiResource.Name} |->
                        IF n = apiResource.Name THEN value ELSE reg.m[n]],
              ns |-> IF apiResource.Namespaced THEN Append(reg.ns, triplet) ELSE reg.ns,
              cs |-> IF apiResource.Namespaced THEN reg.cs ELSE Append(reg.cs, triplet)]

\* mutant: no test for an empty verb list
RegisterResource_NoVerbsTest(reg, gv, apiResource) ==
    IF apiResource.Name \in DOMAIN reg.m
    THEN reg
    ELSE LET triplet == JoinResourceTriplets(gv.Group, gv.Version, apiResource.Name)
         IN  [m  |-> reg.m @@ (apiResource.Name :> JoinGroupVersion(gv.Group, gv.Version)),
              ns |-> IF apiResource.Namespaced THEN Append(reg.ns, triplet) ELSE reg.ns,
              cs |-> IF apiResource.Namespaced THEN reg.cs ELSE Append(reg.cs, triplet)]

\* lines 50-64, one iteration: the guarded insert of one descriptor
RegisterResource(reg, gv, apiResource) ==
    IF Len(apiResource.Verbs) = 0
    THEN reg
    ELSE IF apiResource.Name \in DOMAIN reg.m
    THEN reg
    ELSE LET triplet == JoinResourceTriplets(gv.Group, gv.Version, apiResource.Name)
         IN  [m  |-> reg.m @@ (apiResource.Name :> JoinGroupVersion(gv.Group, gv.Version)),
              ns |-> IF apiResource.Namespaced THEN Append(reg.ns, triplet) ELSE reg.ns,
              cs |-> IF apiResource.Namespaced THEN reg.cs ELSE Append(reg.cs, triplet)]

RECURSIVE RegisterResources(_, _, _)
RegisterResources(reg, gv, apiResources) ==
    IF apiResources = << >>
    THEN reg
    ELSE RegisterResources(RegisterResource(reg, gv, Head(apiResources)),
                           gv, Tail(apiResources))

\* mutant: no group is ignored
IsIgnoredGroup_Never(group) == FALSE

\* line 47: pre-defined resources to ignore
IsIgnoredGroup(group) == StringInSlice(ignoreGroups, group) # ValueNotFound

\* lines 33-65, one iteration of the outer loop
RegisterList(reg, entry) ==
    IF entry.nil
    THEN reg
    ELSE IF Len(entry.APIResources) = 0
    THEN reg
    ELSE LET gv == ParseGroupVersion(entry.GroupVersion)
         IN  IF gv.err
             THEN reg
             ELSE IF IsIgnoredGroup(gv.Group)
             THEN reg
             ELSE RegisterResources(reg, gv, entry.APIResources)

RECURSIVE setMapResources(_, _)
setMapResources(reg, resourceList) ==
    IF resourceList = << >>
    THEN reg
    ELSE setMapResources(RegisterList(reg, Head(resourceList)), Tail(resourceList))

(***************************************************************************)
(* Queries.  They read the package variables of the current state.         *)
(***************************************************************************)
NoGVR == [Group |-> Empty, Version |-> Empty, Resource |-> Empty]

\* a Go error: nil, or the fmt.Errorf of line 88 with the %s it was given
NilError == [unknown |-> FALSE, resource |-> Empty]
UnknownResource(resource) == [unknown |-> TRUE, resource |-> resource]

\* mutant: the error names the resource as it was passed in
GetGroupVersionResource_RequestedName(resource0) ==
    LET resource == updateResourceKind(resource0)
        found == /\ resource \in DOMAIN ResourceGroupMapping
                 /\ Len(Split(ResourceGroupMapping[resource])) >= 2
    IN  IF found
        THEN LET gv == Split(ResourceGroupMapping[resource])
             IN  [gvr |-> [Group |-> gv[1], Version |-> gv[2], Resource |-> resource],
                  err |-> NilError]
        ELSE IF resource = Empty \/ resource = Star
        THEN [gvr |-> NoGVR, err |-> NilError]
        ELSE [gvr |-> NoGVR, err |-> UnknownResource(resource0)]

GetGroupVersionResource(resource0) ==
    LET resource == updateResourceKind(resource0)
        found == /\ resource \in DOMAIN ResourceGroupMapping
                 /\ Len(Split(ResourceGroupMapping[resource])) >= 2
    IN  IF found
        THEN LET gv == Split(ResourceGroupMapping[resource])
             IN  [gvr |-> [Group |-> gv[1], Version |-> gv[2], Resource |-> resource],
                  err |-> NilError]
        ELSE IF resource = Empty \/ resource = Star
        THEN [gvr |-> NoGVR, err |-> NilError]
        ELSE [gvr |-> NoGVR, err |-> UnknownResource(resource)]

IsKindKubernetes(kind) == GetGroupVersionResource(kind).err = NilError

\* mutant: looks the triple up in the deprecated cluster-scope slice
IsNamespaceScope_ClusterSlice(resource) ==
    StringInSlice(ResourceClusterScope, GroupVersionResourceToString(resource))
        # ValueNotFound

\* the call of GetGroupVersionResource on line 94 drops its results
IsNamespaceScope(resource) ==
    StringInSlice(ResourceNamesapcedScope, GroupVersionResourceToString(resource))
        # ValueNotFound

IsResourceInNamespaceScope(resource) ==
    LET r == GetGroupVersionResource(resource)
    IN  IF r.err # NilError THEN FALSE ELSE IsNamespaceScope(r.gvr)

\* the orders in which a range over ResourceGroupMapping can visit its keys
KeyOrders ==
    {o \in SeqsOfLen(DOMAIN ResourceGroupMapping, Cardinality(DOMAIN ResourceGroupMapping)) :
        \A i, j \in 1..Len(o) : i # j => o[i] # o[j]}

\* keyOrder is the order in which the range of line 157 visits the map
getResourceTriplets(group, version, resource, keyOrder) ==
    IF resource = Empty
    THEN LET kept == SelectSeq(keyOrder,
                        LAMBDA k : Len(Split(ResourceGroupMapping[k])) >= 2)
         IN  [i \in 1..Len(kept) |->
                LET g == Split(ResourceGroupMapping[kept[i]])
                IN  JoinResourceTriplets(g[1], g[2], kept[i])]
    ELSE IF version = Empty
    THEN IF resource \in DOMAIN ResourceGroupMapping
         THEN LET g == Split(ResourceGroupMapping[resource])
              IN  IF Len(g) >= 2
                  THEN <<JoinResourceTriplets(IF group = Empty THEN g[1] ELSE group,
                                              g[2], resource)>>
                  ELSE << >>
         ELSE << >>
    ELSE IF group = Empty
    THEN IF resource \in DOMAIN ResourceGroupMapping
         THEN LET g == Split(ResourceGroupMapping[resource])
              IN  IF Len(g) >= 1
                  THEN <<JoinResourceTriplets(g[1], version, resource)>>
                  ELSE << >>
         ELSE << >>
    ELSE <<JoinResourceTriplets(group, version, resource)>>

\* lines 205-213: "*" is rewritten to ""
Unstar(s) == IF s = Star THEN Empty ELSE s

\* mutant: the kind is made plural before the test for a Kubernetes kind
ResourceGroupToSlice_PluralFirst(group0, version0, resource0, keyOrder) ==
    LET group == Unstar(group0)
        version == Unstar(version0)
        resource == updateResourceKind(Unstar(resource0))
    IN  IF ~IsKindKubernetes(resource)
        THEN <<JoinResourceTriplets(group, version, resource)>>
        ELSE getResourceTriplets(group, version, resource, keyOrder)

ResourceGroupToSlice(group0, version0, resource0, keyOrder) ==
    LET group == Unstar(group0)
        version == Unstar(version0)
        resource == Unstar(resource0)
    IN  IF ~IsKindKubernetes(resource)
        THEN <<JoinResourceTriplets(group, version, resource)>>
        ELSE getResourceTriplets(group, version, updateResourceKind(resource), keyOrder)

StringToResourceGroup(str) ==
    LET parts == Split(str)
        splitted == [i \in 1..Len(parts) |-> IF parts[i] = Star THEN Empty ELSE parts[i]]
    IN  IF Len(splitted) = 3
        THEN <<splitted[1], splitted[2], splitted[3]>>
        ELSE <<Empty, Empty, Empty>>

(***************************************************************************)
(* History variable firstSeen: for each resource name, the GroupVersion    *)
(* string and the Namespaced flag of the first descriptor of that name     *)
(* that any snapshot supplied so far carried in a well-formed, non-ignored *)
(* entry with at least one verb.  It is computed from the snapshots alone, *)
(* not from the registry.                                                  *)
(***************************************************************************)
RECURSIVE Offers(_)
Offers(resourceList) ==
    IF resourceList = << >>
    THEN << >>
    ELSE LET e == Head(resourceList)
         IN  [i \in 1..Len(e.APIResources) |->
                [GroupVersion |-> e.GroupVersion, res |-> e.APIResources[i]]]
             \o Offers(Tail(resourceList))

Accepted(offer) ==
    /\ ~ParseGroupVersion(offer.GroupVersion).err
    /\ ParseGroupVersion(offer.GroupVersion).Group # str_metrics
    /\ offer.res.Verbs # << >>

AcceptedNames(offers) ==
    {offers[i].res.Name : i \in {j \in 1..Len(offers) : Accepted(offers[j])}}

FirstAccepted(offers, name) ==
    offers[CHOOSE i \in 1..Len(offers) :
            /\ Accepted(offers[i]) /\ offers[i].res.Name = name
            /\ \A j \in 1..(i - 1) : ~(Accepted(offers[j]) /\ offers[j].res.Name = name)]

RecordFirstSeen(seen, resourceList) ==
    LET offers == Offers(resourceList)
    IN  [n \in DOMAIN seen \cup AcceptedNames(offers) |->
            IF n \in DOMAIN seen
            THEN seen[n]
            ELSE [GroupVersion |-> FirstAccepted(offers, n).GroupVersion,
                  Namespaced   |-> FirstAccepted(offers, n).res.Namespaced]]

(***************************************************************************)
(* The state machine.  pc names the function that was called last ("idle"  *)
(* between calls), arg its arguments and result what it returned.          *)
(***************************************************************************)
None == "none"

\* the kinds given to the lookups
Kinds == {Empty, Star, str_pod, str_Pod, str_pods, str_PODS,
          str_policy, str_Policy, str_policies, str_crd}

\* the fields given to the triple helpers and to the expansions
Groups == {Empty, Star, str_apps}
Versions == {Empty, Star, str_v1}
Resources == {Empty, Star, str_Pod, str_pods, str_policy, str_crd}

Alphabet == {"a", "y", "s", "Y", "S", "*"}

StringsUpTo(n) == UNION {SeqsOfLen(Alphabet, k) : k \in 0..n}

Init ==
    /\ ResourceGroupMapping = << >>
    /\ ResourceNamesapcedScope = << >>
    /\ ResourceClusterScope = << >>
    /\ pc = "idle"
    /\ arg = None
    /\ result = None
    /\ firstSeen = << >>

Query(name, a, r) ==
    /\ pc = "idle"
    /\ pc' = name
    /\ arg' = a
    /\ result' = r
    /\ UNCHANGED <<registry, firstSeen>>

CallSetMapResources ==
    /\ pc = "idle"
    /\ \E resourceList \in Snapshots :
        LET reg == setMapResources([m  |-> ResourceGroupMapping,
                                    ns |-> ResourceNamesapcedScope,
                                    cs |-> ResourceClusterScope], resourceList)
        IN  /\ ResourceGroupMapping' = reg.m
            /\ ResourceNamesapcedScope' = reg.ns
            /\ ResourceClusterScope' = reg.cs
            /\ pc' = "setMapResources"
            /\ arg' = resourceList
            /\ result' = None
            /\ firstSeen' = RecordFirstSeen(firstSeen, resourceList)

CallUpdateResourceKind ==
    \E resource \in StringsUpTo(MaxLen) \cup Kinds :
        Query("updateResourceKind", resource, updateResourceKind(resource))

CallGetGroupVersionResource ==
    \E resource \in Kinds :
        Query("GetGroupVersionResource", resource, GetGroupVersionResource(resource))

CallIsKindKubernetes ==
    \E kind \in Kinds :
        Query("IsKindKubernetes", kind, IsKindKubernetes(kind))

CallIsNamespaceScope ==
    \E kind \in Kinds :
        /\ GetGroupVersionResource(kind).err = NilError
        /\ Query("IsNamespaceScope", GetGroupVersionResource(kind).gvr,
                 IsNamespaceScope(GetGroupVersionResource(kind).gvr))

CallIsResourceInNamespaceScope ==
    \E resource \in Kinds :
        Query("IsResourceInNamespaceScope", resource, IsResourceInNamespaceScope(resource))

CallJoinResourceTriplets ==
    \E group \in Groups, version \in Versions, resource \in Resources :
        Query("JoinResourceTriplets", <<group, version, resource>>,
              JoinResourceTriplets(group, version, resource))

CallGetResourceTriplets ==
    \E group \in Groups \ {Star}, version \in Versions \ {Star},
       resource \in Resources \ {Star}, keyOrder \in KeyOrders :
        Query("getResourceTriplets", <<group, version, resource>>,
              getResourceTriplets(group, version, resource, keyOrder))

CallResourceGroupToSlice ==
    \E group \in Groups, version \in Versions, resource \in Resources,
       keyOrder \in KeyOrders :
        Query("ResourceGroupToSlice", <<group, version, resource>>,
              ResourceGroupToSlice(group, version, resource, keyOrder))

Return ==
    /\ pc # "idle"
    /\ pc' = "idle"
    /\ arg' = None
    /\ result' = None
    /\ UNCHANGED <<registry, firstSeen>>

Next ==
    \/ CallSetMapResources
    \/ CallUpdateResourceKind
    \/ CallGetGroupVersionResource
    \/ CallIsKindKubernetes
    \/ CallIsNamespaceScope
    \/ CallIsResourceInNamespaceScope
    \/ CallJoinResourceTriplets
    \/ CallGetResourceTriplets
    \/ CallResourceGroupToSlice
    \/ Return

Spec == Init /\ [][Next]_vars

(***************************************************************************)
(* Properties.                                                             *)
(***************************************************************************)
Range(f) == {f[i] : i \in DOMAIN f}

IsPrefix(s, t) == Len(s) <= Len(t) /\ SubSeq(t, 1, Len(s)) = s

\* the entries that carry one descriptor, and those of the ignored group that carry
\* one or two
OneDescriptorEntries == EntriesOfSize(2)
IgnoredGroupEntries ==
    {e \in EntriesOfSize(2) \cup EntriesOfSize(3) : e.GroupVersion = str_metrics_v1}

\* the group/version/resource that firstSeen records for a name
FirstSeenGVR(n) ==
    [Group    |-> ParseGroupVersion(firstSeen[n].GroupVersion).Group,
     Version  |-> ParseGroupVersion(firstSeen[n].GroupVersion).Version,
     Resource |-> n]

\* C1: in every registry state GetGroupVersionResource("*") and
\* GetGroupVersionResource("") return the all-empty triple and no error, and
\* IsKindKubernetes("*") is true.
C1_WildcardSentinel ==
    /\ (pc = "GetGroupVersionResource" /\ arg \in {Empty, Star})
         => result = [gvr |-> NoGVR, err |-> NilError]
    /\ (pc = "IsKindKubernetes" /\ arg = Star) => result = TRUE

\* C2: first-seen-wins.  After every step each name of ResourceGroupMapping maps to
\* the group/version of the first accepted descriptor that carried the name; no
\* step removes or rewrites an entry of the map or of the two scope slices; and
\* registering one more descriptor of a name that is already a key changes none
\* of the three structures (looked at in every registry state, as it is reached).
C2_Step ==
    LET reg1 == [m  |-> ResourceGroupMapping',
                 ns |-> ResourceNamesapcedScope',
                 cs |-> ResourceClusterScope']
    IN  /\ \A n \in DOMAIN ResourceGroupMapping' :
            /\ n \in DOMAIN firstSeen'
            /\ ResourceGroupMapping'[n] =
                 ParseGroupVersion(firstSeen'[n].GroupVersion).Group \o <<Slash>>
                    \o ParseGroupVersion(firstSeen'[n].GroupVersion).Version
        /\ \A n \in DOMAIN ResourceGroupMapping :
            /\ n \in DOMAIN ResourceGroupMapping'
            /\ ResourceGroupMapping'[n] = ResourceGroupMapping[n]
        /\ IsPrefix(ResourceNamesapcedScope, ResourceNamesapcedScope')
        /\ IsPrefix(ResourceClusterScope, ResourceClusterScope')
        /\ registry' # registry =>
            \A e \in OneDescriptorEntries :
                (e.APIResources[1].Name \in DOMAIN reg1.m) => RegisterList(reg1, e) = reg1

C2_FirstSeenWins == [][C2_Step]_vars

C2_Witness ==
    /\ pc = "setMapResources"
    /\ str_pods \in DOMAIN ResourceGroupMapping
    /\ ResourceGroupMapping[str_pods] = <<Slash>> \o str_v1
    /\ \E i \in 1..Len(arg) :
        /\ arg[i].GroupVersion = str_apps_v1
        /\ \E j \in 1..Len(arg[i].APIResources) :
            /\ arg[i].APIResources[j].Name = str_pods
            /\ arg[i].APIResources[j].Verbs # << >>

\* C3: getResourceTriplets(group, version, resource) returns every registered triple
\* that matches the fields given (non-empty) and no triple that disagrees with a
\* given field; with group and version given and resource empty it returns exactly
\* the registered triples of that group and version.
C3_ExpandMatchesFields ==
    pc = "getResourceTriplets" =>
        LET registered == {JoinResourceTriplets(Split(ResourceGroupMapping[n])[1],
                                                Split(ResourceGroupMapping[n])[2], n) :
                            n \in DOMAIN ResourceGroupMapping}
            agrees(t) == /\ arg[1] = Empty \/ Split(t)[1] = arg[1]
                         /\ arg[2] = Empty \/ Split(t)[2] = arg[2]
                         /\ arg[3] = Empty \/ Split(t)[3] = arg[3]
        IN  /\ \A t \in registered : agrees(t) => t \in Range(result)
            /\ \A t \in Range(result) : agrees(t)
            /\ (arg[1] # Empty /\ arg[2] # Empty /\ arg[3] = Empty)
                 => Range(result) = {t \in registered : agrees(t)}

\* C4 as stated: splitting the joined triple g/v/r returns exactly (g, v, r), for
\* every g, v and r without "/", "*" included.
C4_RoundTripExact ==
    pc = "JoinResourceTriplets" => StringToResourceGroup(result) = arg

\* C4 as amended: splitting the joined triple g/v/r returns (g, v, r) with every
\* field equal to "*" replaced by the empty string.
C4_RoundTripUpToStar ==
    pc = "JoinResourceTriplets" =>
        StringToResourceGroup(result) =
            [i \in 1..3 |-> IF arg[i] = <<"*">> THEN << >> ELSE arg[i]]

C4_Witness ==
    /\ pc = "JoinResourceTriplets"
    /\ arg = <<Star, str_v1, str_pods>>
    /\ result = <<"*", "/", "v", "1", "/", "p", "o", "d", "s">>
    /\ StringToResourceGroup(result) = <<Empty, str_v1, str_pods>>

\* C5 as stated: GetGroupVersionResource(name), for a name whose normalized form is
\* no key of the map and is neither empty nor "*", fails with an error that carries
\* the name as the caller passed it, and returns the zero triple.
C5_UnknownCarriesRequestedName ==
    (/\ pc = "GetGroupVersionResource"
     /\ arg \notin {Empty, Star}
     /\ updateResourceKind(arg) \notin DOMAIN ResourceGroupMapping \cup {Empty, Star})
        => /\ result.err = [unknown |-> TRUE, resource |-> arg]
           /\ result.gvr = NoGVR

\* C5 as amended: the error carries the normalized form of the name.
C5_UnknownCarriesNormalizedName ==
    (/\ pc = "GetGroupVersionResource"
     /\ arg \notin {Empty, Star}
     /\ updateResourceKind(arg) \notin DOMAIN ResourceGroupMapping \cup {Empty, Star})
        => /\ result.err = [unknown |-> TRUE, resource |-> updateResourceKind(arg)]
           /\ result.gvr = NoGVR

C5_Witness ==
    /\ pc = "GetGroupVersionResource"
    /\ arg = str_Policy
    /\ str_policy \in DOMAIN ResourceGroupMapping
    /\ result.err = [unknown |-> TRUE, resource |-> str_policies]

\* C6: ignored-group exclusion.  No value of the map and no triple of either scope
\* slice has an ignored group; an entry of an ignored group changes none of the
\* three structures, whatever its descriptors (looked at between calls, where
\* every registry state shows); and every name that an accepted (non-ignored)
\* descriptor carried is a key of the map.
C6_IgnoredGroupExcluded ==
    LET reg == [m  |-> ResourceGroupMapping,
                ns |-> ResourceNamesapcedScope,
                cs |-> ResourceClusterScope]
    IN  /\ \A n \in DOMAIN ResourceGroupMapping :
            Split(ResourceGroupMapping[n])[1] # str_metrics
        /\ \A t \in Range(ResourceNamesapcedScope) \cup Range(ResourceClusterScope) :
            Split(t)[1] # str_metrics
        /\ pc = "idle" => \A e \in IgnoredGroupEntries : RegisterList(reg, e) = reg
        /\ DOMAIN firstSeen \subseteq DOMAIN ResourceGroupMapping

C6_Witness ==
    /\ pc = "setMapResources"
    /\ Len(arg) = 1
    /\ arg[1].GroupVersion = str_metrics_v1
    /\ Len(arg[1].APIResources) = 2
    /\ arg[1].APIResources[1] = [Name |-> str_pods, Namespaced |-> TRUE, Verbs |-> <<"get">>]
    /\ str_pods \notin DOMAIN ResourceGroupMapping
    /\ str_policy \in DOMAIN ResourceGroupMapping

\* C7: updateResourceKind(updateResourceKind(x)) = updateResourceKind(x).
C7_NormalizeIdempotent ==
    pc = "updateResourceKind" => updateResourceKind(result) = result

C7_Witness ==
    /\ pc = "updateResourceKind"
    /\ arg = <<"a", "Y">>
    /\ result = <<"a", "i", "e", "s">>

\* C8: for a registered name n in normalized form, first seen with group g, version
\* v and Namespaced flag b, GetGroupVersionResource of an input that normalizes to n
\* returns (g, v, n), and IsNamespaceScope of that triple and
\* IsResourceInNamespaceScope of that input both return b.
C8_EndToEndLookup ==
    /\ (pc = "GetGroupVersionResource"
            /\ updateResourceKind(arg) \in DOMAIN ResourceGroupMapping)
         => /\ updateResourceKind(arg) \in DOMAIN firstSeen
            /\ result = [gvr |-> FirstSeenGVR(updateResourceKind(arg)), err |-> NilError]
            /\ IsNamespaceScope(result.gvr) = firstSeen[updateResourceKind(arg)].Namespaced
    /\ (pc = "IsNamespaceScope"
            /\ arg.Resource \in DOMAIN ResourceGroupMapping
            /\ arg.Resource = updateResourceKind(arg.Resource))
         => result = firstSeen[arg.Resource].Namespaced
    /\ (pc = "IsResourceInNamespaceScope"
            /\ updateResourceKind(arg) \in DOMAIN ResourceGroupMapping)
         => result = firstSeen[updateResourceKind(arg)].Namespaced

C8_Witness ==
    /\ pc = "IsResourceInNamespaceScope"
    /\ arg = str_Pod
    /\ result = TRUE
    /\ ResourceGroupMapping[str_pods] = <<Slash>> \o str_v1
    /\ ResourceClusterScope # << >>

\* C9: ResourceGroupToSlice(group, version, resource), when resource (with "*" made
\* empty) is no Kubernetes kind, returns the one triple group/version/resource with
\* only the "*" fields made empty and the resource not normalized, and leaves the
\* registry as it was.
C9_Step ==
    (pc' = "ResourceGroupToSlice"
        /\ ~IsKindKubernetes(IF arg'[3] = <<"*">> THEN << >> ELSE arg'[3]))
     => /\ result' = << (IF arg'[1] = <<"*">> THEN << >> ELSE arg'[1]) \o <<"/">>
                        \o (IF arg'[2] = <<"*">> THEN << >> ELSE arg'[2]) \o <<"/">>
                        \o (IF arg'[3] = <<"*">> THEN << >> ELSE arg'[3]) >>
        /\ UNCHANGED registry

C9_UnknownKindPassesThrough == [][C9_Step]_vars

C9_Witness ==
    /\ pc = "ResourceGroupToSlice"
    /\ arg = <<Star, str_v1, str_policy>>
    /\ str_policy \in DOMAIN ResourceGroupMapping
    /\ result = << <<"/", "v", "1", "/", "p", "o", "l", "i", "c", "y">> >>

\* C10: scope-set invariant.  No triple is in both ResourceNamesapcedScope and
\* ResourceClusterScope, and a step of setMapResources adds a triple to either only
\* if its snapshot holds a descriptor of that name with at least one verb in an
\* entry of that group and version.
C10_Step ==
    /\ Range(ResourceNamesapcedScope') \cap Range(ResourceClusterScope') = {}
    /\ \A t \in (Range(ResourceNamesapcedScope') \cup Range(ResourceClusterScope'))
                    \ (Range(ResourceNamesapcedScope) \cup Range(ResourceClusterScope)) :
        /\ pc' = "setMapResources"
        /\ \E i \in 1..Len(arg') :
            /\ ~arg'[i].nil
            /\ ~ParseGroupVersion(arg'[i].GroupVersion).err
            /\ \E j \in 1..Len(arg'[i].APIResources) :
                /\ Len(arg'[i].APIResources[j].Verbs) >= 1
                /\ t = ParseGroupVersion(arg'[i].GroupVersion).Group \o <<"/">>
                        \o ParseGroupVersion(arg'[i].GroupVersion).Version \o <<"/">>
                        \o arg'[i].APIResources[j].Name

C10_ScopeSets == [][C10_Step]_vars

C10_Witness ==
    /\ pc = "setMapResources"
    /\ Len(arg) = 1
    /\ Len(arg[1].APIResources) = 2
    /\ arg[1].APIResources[1].Verbs = << >>
    /\ arg[1].APIResources[2].Verbs # << >>
    /\ arg[1].APIResources[1].Name = arg[1].APIResources[2].Name
    /\ arg[1].APIResources[1].Namespaced # arg[1].APIResources[2].Namespaced
    /\ ResourceNamesapcedScope # << >>
    /\ ResourceClusterScope # << >>

====
